---- MODULE Spec2Model ----
(***************************************************************************)
(* A model of tablestream (src/src/lib.rs): a Stream buffers rows, sizes   *)
(* its columns once (calc_sizes / penalize_big_cols) and then writes the   *)
(* table line by line to its output.                                       *)
(*                                                                         *)
(* Texts are sequences of glyph display widths (1 = narrow, 2 = wide).     *)
(* Option<T> is a sequence of length 0 (None) or 1 (Some).                 *)
(* usize arithmetic that can leave 0..2^64-1 is reduced modulo UsizeMod,   *)
(* a scaled-down word; every other quantity of the model is far below it.  *)
(* An overflowing subtraction panics in a build with overflow checks and   *)
(* wraps in one without: both outcomes are kept as alternatives.           *)
(*                                                                         *)
(* Spec is a session on an output that never fails; StreamSpec is Spec     *)
(* for one-column tables, the ones streamed past the buffer limit;         *)
(* FaultSpec adds the calls that return Err; FormatSpec is the cell        *)
(* formatter Alignment::write on its own.                                  *)
(***************************************************************************)
EXTENDS Integers, Sequences, FiniteSets, TLC

VARIABLES
    columns,            \* Stream.columns: Seq of Column records
    max_width,          \* Stream.max_width
    grow,               \* Stream.grow: Option<bool>
    borders,            \* Stream.borders
    padding,            \* Stream.padding
    title,              \* Stream.title: Option<text>
    sizes_calculated,   \* Stream.sizes_calculated
    width,              \* Stream.width
    buffer,             \* Stream.buffer: Seq of rows
    output,             \* the lines received by Stream.output, in order
    status,             \* "open" | "finished" | "failed" | "panicked"
    panic,              \* why the session panicked ("none" while it has not)
    calls,              \* number of builder calls made on the Stream so far
    errors,             \* where each call that returned Err failed, in order
    sample,             \* number of rows calc_sizes has measured
    appended,           \* the rows passed to row(), in order
    cell                \* one Alignment::write call: its arguments and result

vars == <<columns, max_width, grow, borders, padding, title, sizes_calculated,
          width, buffer, output, status, panic, calls, errors, sample,
          appended, cell>>

----------------------------------------------------------------------------
(* Bounds of the model.                                                    *)

MaxCols == 3
MaxRows == 2
StreamRows == 102
MaxSetterCalls == 1
MaxIoErrors == 1
MaxFaultCols == 2
MaxCellLen == 3
MaxCellWidth == 4
UsizeBits == 16

UsizeMod == 2 ^ UsizeBits
BufferLimit == 100
DefaultTermWidth == 80
DefaultMinWidth == 1

None == << >>
Some(x) == << x >>
IsSome(o) == Len(o) = 1
Unwrap(o) == o[1]

Max(a, b) == IF a >= b THEN a ELSE b
Min(a, b) == IF a <= b THEN a ELSE b
Wrap(x) == x % UsizeMod

RECURSIVE SumSeq(_)
SumSeq(s) == IF s = << >> THEN 0 ELSE Head(s) + SumSeq(Tail(s))

\* UnicodeWidthStr::width of a text.
TextWidth(t) == SumSeq(t)
\* str::len of a text: one byte per narrow glyph, three per wide glyph.
ByteLen(t) == SumSeq([i \in 1..Len(t) |-> IF t[i] = 2 THEN 3 ELSE 1])

----------------------------------------------------------------------------
(* Column and its builder (lib.rs 479-557).                                *)

\* Column::new
ColumnNew ==
    [header |-> None, min_width |-> DefaultMinWidth, width |-> 0,
     max_width |-> 0, width_sum |-> 0]

\* Column::header
ColumnHeader(c, name) ==
    [c EXCEPT !.header = Some(name),
              !.min_width = Max(c.min_width, ByteLen(name))]

\* Column::min_width
ColumnMinWidth(c, m) == [c EXCEPT !.min_width = m]

\* The header texts and min_width arguments a caller passes: the header is
\* one wide glyph (three bytes, two display columns).
HeaderTexts == { <<2>> }
MinWidthArgs == { 0, 3 }

\* One builder call is <<"header", text>> or <<"min_width", n>>.
HeaderCalls == { <<"header", h>> : h \in HeaderTexts }
MinWidthCalls == { <<"min_width", m>> : m \in MinWidthArgs }

\* The builder chains applied to Column::new: none, either call, or both in
\* either order.
BuilderChains ==
    { << >> }
    \cup { <<a>> : a \in HeaderCalls \cup MinWidthCalls }
    \cup { <<a, b>> : a \in HeaderCalls, b \in MinWidthCalls }
    \cup { <<b, a>> : a \in HeaderCalls, b \in MinWidthCalls }

ApplyCall(c, call) ==
    IF call[1] = "header" THEN ColumnHeader(c, call[2])
                          ELSE ColumnMinWidth(c, call[2])

RECURSIVE BuildColumn(_, _)
BuildColumn(c, chain) ==
    IF chain = << >> THEN c
    ELSE BuildColumn(ApplyCall(c, Head(chain)), Tail(chain))

BuiltColumns == { BuildColumn(ColumnNew, ch) : ch \in BuilderChains }

\* The column vectors handed to Stream::new.
ColumnVectors == UNION { [1..n -> BuiltColumns] : n \in 0..MaxCols }

----------------------------------------------------------------------------
(* Layout overheads, as computed in max_width, calc_sizes and              *)
(* penalize_big_cols (lib.rs 130-134, 319-324, 385-390).                   *)

PadOf(p) == IF p THEN 1 ELSE 0
BorderOf(b) == IF b THEN 1 ELSE 0

\* (num_cols - 1) * (1 + 2*padding)
Dividers(cols, p) == Wrap((Len(cols) - 1) * (1 + 2 * PadOf(p)))

\* border * (border + padding) * 2
BordersWidth(b, p) == BorderOf(b) * (BorderOf(b) + PadOf(p)) * 2

\* sum of the columns' min_width
MinWidthSum(cols) == SumSeq([i \in 1..Len(cols) |-> cols[i].min_width])

\* The floor Stream::max_width raises a requested width to.
MinFeasible(cols, b, p) ==
    Wrap(MinWidthSum(cols) + BordersWidth(b, p) + Dividers(cols, p))

\* Stream::max_width: the value it stores in self.max_width.
MaxWidthValue(cols, b, p, t, requested) ==
    LET title_width ==
            Wrap((IF IsSome(t) THEN TextWidth(Unwrap(t)) ELSE 0)
                 + BordersWidth(b, p))
    IN Max(Max(requested, MinFeasible(cols, b, p)), title_width)

\* self.max_width - borders - dividers
AvailableWidth(cols, mw, b, p) ==
    Wrap(mw - BordersWidth(b, p) - Dividers(cols, p))

----------------------------------------------------------------------------
(* The sizing engine: calc_sizes and penalize_big_cols (lib.rs 300-444).   *)

\* calc_sizes, the loop over the buffer: every cell is measured once and
\* folded into its column's max_width and width_sum.
MeasureColumn(c, i, buf) ==
    LET ws == [k \in 1..Len(buf) |-> TextWidth(buf[k][i])]
        widest == IF Len(buf) = 0 THEN 0
                  ELSE CHOOSE w \in { ws[k] : k \in 1..Len(buf) } :
                           \A k \in 1..Len(buf) : ws[k] <= w
    IN [c EXCEPT !.max_width = Max(c.max_width, widest),
                 !.width_sum = c.width_sum + SumSeq(ws)]

Measure(cols, buf) == [i \in 1..Len(cols) |-> MeasureColumn(cols[i], i, buf)]

\* The closure col_width of calc_sizes: a column's natural width.
ColWidth(c) ==
    Max(Max(c.max_width,
            IF IsSome(c.header) THEN ByteLen(Unwrap(c.header)) ELSE 0),
        c.min_width)

\* sort_by_key(|c| c.width_sum): a stable ascending sort; the result lists
\* column indices, the "big" columns last.
SortByWidthSum(cols) ==
    LET n == Len(cols)
        Before(j, i) ==
            \/ cols[j].width_sum < cols[i].width_sum
            \/ cols[j].width_sum = cols[i].width_sum /\ j < i
        Rank(i) == Cardinality({ j \in 1..n : Before(j, i) }) + 1
    IN [k \in 1..n |-> CHOOSE i \in 1..n : Rank(i) = k]

\* What a small column is given by penalize_big_cols.
SmallWidth(c) == Max(c.min_width, c.max_width)

\* penalize_big_cols, first pass over the big columns: a column whose even
\* share is below its min_width is pinned to min_width.
RECURSIVE FirstPass(_, _, _, _, _)
FirstPass(cols, big, k, remaining_width, big_cols_left) ==
    IF k > Len(big)
    THEN [columns |-> cols, remaining_width |-> remaining_width,
          big_cols_left |-> big_cols_left]
    ELSE LET c == cols[big[k]]
             cols_per_big_col == remaining_width \div big_cols_left
         IN IF cols_per_big_col < c.min_width
            THEN FirstPass([cols EXCEPT ![big[k]].width = c.min_width],
                           big, k + 1, remaining_width - c.min_width,
                           big_cols_left - 1)
            ELSE FirstPass(cols, big, k + 1, remaining_width, big_cols_left)

\* penalize_big_cols, second pass: the columns not yet given a width share
\* what is left; the remainder goes to the last big column.
SecondPass(cols, big, remaining_width, big_cols_left) ==
    IF big_cols_left > 0
    THEN LET cols_per_big_col == remaining_width \div big_cols_left
             shared == [i \in 1..Len(cols) |->
                          IF (\E k \in 1..Len(big) : big[k] = i)
                             /\ ~(cols[i].width > 0)
                          THEN [cols[i] EXCEPT !.width = cols_per_big_col]
                          ELSE cols[i]]
             rest == remaining_width - big_cols_left * cols_per_big_col
             last == big[Len(big)]
         IN IF rest > 0
            THEN [shared EXCEPT ![last].width = shared[last].width + rest]
            ELSE shared
    ELSE cols

\* penalize_big_cols(num_big_cols): [ok |-> the bool it returns,
\* columns |-> the columns afterwards].
PenalizeBigCols(cols, mw, b, p, num_big_cols) ==
    LET num_cols == Len(cols)
        available_width == AvailableWidth(cols, mw, b, p)
        order == SortByWidthSum(cols)
        small == SubSeq(order, 1, num_cols - num_big_cols)
        big == SubSeq(order, num_cols - num_big_cols + 1, num_cols)
        needed_width ==
            SumSeq([k \in 1..Len(small) |-> SmallWidth(cols[small[k]])])
            + SumSeq([k \in 1..Len(big) |-> cols[big[k]].min_width])
        withSmall == [i \in 1..num_cols |->
                        IF \E k \in 1..Len(small) : small[k] = i
                        THEN [cols[i] EXCEPT !.width = SmallWidth(cols[i])]
                        ELSE cols[i]]
        pool == available_width
                - SumSeq([k \in 1..Len(small) |-> SmallWidth(cols[small[k]])])
        first == FirstPass(withSmall, big, 1, pool, num_big_cols)
    IN IF needed_width > available_width
       THEN [ok |-> FALSE, columns |-> cols]
       ELSE [ok |-> TRUE,
             columns |-> SecondPass(first.columns, big, first.remaining_width,
                                    first.big_cols_left)]

\* A sizing that forgets the remainder of the slack.
ExtraLastColDropped(extra_width, num_cols) == 0

\* extra_last_col of calc_sizes: what the last column gets on top.
ExtraLastCol(extra_width, num_cols) == extra_width % num_cols

\* A sizing that grows when grow is unset.
GrowUnwrapOrTrue(g) == IF IsSome(g) THEN Unwrap(g) ELSE TRUE

\* self.grow.unwrap_or(false) of calc_sizes
GrowUnwrapOrFalse(g) == IF IsSome(g) THEN Unwrap(g) ELSE FALSE

\* calc_sizes, the natural-fit branch ("easy mode").
EasyMode(cols, mw, b, p, g) ==
    LET num_cols == Len(cols)
        available_width == AvailableWidth(cols, mw, b, p)
        all_max == SumSeq([i \in 1..num_cols |-> ColWidth(cols[i])])
        growing == GrowUnwrapOrFalse(g)
        extra_width == IF growing THEN available_width - all_max ELSE 0
        table_width ==
            IF growing THEN mw
            ELSE Wrap(all_max + Dividers(cols, p) + BordersWidth(b, p))
    IN IF num_cols = 0
       THEN [panic |-> "div_zero", columns |-> cols, width |-> table_width]
       ELSE [panic |-> "none",
             columns |-> [i \in 1..num_cols |->
                 [cols[i] EXCEPT !.width =
                     ColWidth(cols[i]) + (extra_width \div num_cols)
                     + (IF i = num_cols THEN ExtraLastCol(extra_width, num_cols)
                        ELSE 0)]],
             width |-> table_width]

\* calc_sizes, the loop "for big_cols in 1..=self.columns.len()".
RECURSIVE TryBigCols(_, _, _, _, _, _)
TryBigCols(cols, mw, b, p, w, big_cols) ==
    IF big_cols > Len(cols)
    THEN [panic |-> "infeasible", columns |-> cols, width |-> w]
    ELSE LET r == PenalizeBigCols(cols, mw, b, p, big_cols)
         IN IF r.ok
            THEN [panic |-> "none", columns |-> r.columns, width |-> mw]
            ELSE TryBigCols(cols, mw, b, p, w, big_cols + 1)

\* calc_sizes past its sizes_calculated guard: the columns and table width
\* it leaves, or the panic it ends in.
CalcSizes(cols0, buf, mw, b, p, g, w) ==
    LET cols == Measure(cols0, buf)
        all_max == SumSeq([i \in 1..Len(cols) |-> ColWidth(cols[i])])
    IN IF all_max < AvailableWidth(cols, mw, b, p)
       THEN EasyMode(cols, mw, b, p, g)
       ELSE TryBigCols(cols, mw, b, p, w, 1)

----------------------------------------------------------------------------
(* The cell formatter, Alignment::write (lib.rs 565-585).                  *)

\* unicode_truncate(col_width): the longest whole-glyph prefix whose display
\* width is at most col_width.
RECURSIVE Truncate(_, _)
Truncate(t, col_width) ==
    IF t = << >> \/ Head(t) > col_width THEN << >>
    ELSE <<Head(t)>> \o Truncate(Tail(t), col_width - Head(t))

\* A formatter that centers with the odd column of padding on the left.
AlignmentWriteOddLeft(alignment, col_width, value) ==
    LET shown == Truncate(value, col_width)
        slack == col_width - TextWidth(shown)
    IN CASE alignment = "Left" ->
                [lpad |-> 0, text |-> shown, rpad |-> slack]
         [] alignment = "Right" ->
                [lpad |-> slack, text |-> shown, rpad |-> 0]
         [] alignment = "Center" ->
                [lpad |-> (slack \div 2) + (slack % 2), text |-> shown,
                 rpad |-> slack \div 2]

\* Alignment::write: the left padding, the text and the right padding it
\* writes.
AlignmentWrite(alignment, col_width, value) ==
    LET shown == Truncate(value, col_width)
        slack == col_width - TextWidth(shown)
    IN CASE alignment = "Left" ->
                [lpad |-> 0, text |-> shown, rpad |-> slack]
         [] alignment = "Right" ->
                [lpad |-> slack, text |-> shown, rpad |-> 0]
         [] alignment = "Center" ->
                [lpad |-> slack \div 2, text |-> shown,
                 rpad |-> (slack \div 2) + (slack % 2)]

\* No Alignment::write call is being followed.
NoCell == [alignment |-> "Left", col_width |-> 0, value |-> << >>,
           written |-> None]

\* Display width of what Alignment::write writes.
WrittenWidth(alignment, col_width, value) ==
    LET a == AlignmentWrite(alignment, col_width, value)
    IN a.lpad + TextWidth(a.text) + a.rpad

----------------------------------------------------------------------------
(* Lines written to the output (lib.rs 205-298, 460-475). A line is        *)
(* [kind, w, row]: what it is, its display width, and for a row line the   *)
(* row it shows.                                                           *)

NoRow == << >>

\* hr
HrLine(w) == [kind |-> "hr", w |-> w, row |-> NoRow]

\* border_left / the opening of print_row: "| " or "|" when borders are on.
BorderLeftWidth(b, p) == IF b THEN 1 + PadOf(p) ELSE 0
\* border_right / the closing of print_row.
BorderRightWidth(b, p) == IF b THEN PadOf(p) + 1 ELSE 0
\* " | " or "|"
DividerWidth(p) == IF p THEN 3 ELSE 1

\* "border_width" of print_headers and footer.
BorderWidth(b, p) == BorderOf(b) + PadOf(p)

\* The title line of print_headers and the footer line of footer: one
\* centered cell between the borders.
BannerLine(kind, cell_width, text, b, p) ==
    [kind |-> kind,
     w |-> BorderLeftWidth(b, p) + WrittenWidth("Center", cell_width, text)
           + BorderRightWidth(b, p),
     row |-> NoRow]

\* The header line of print_headers.
HeaderLine(cols, b, p) ==
    [kind |-> "header",
     w |-> BorderLeftWidth(b, p)
           + SumSeq([i \in 1..Len(cols) |->
                 (IF i > 1 THEN DividerWidth(p) ELSE 0)
                 + WrittenWidth("Center", cols[i].width,
                       IF IsSome(cols[i].header) THEN Unwrap(cols[i].header)
                       ELSE << >>)])
           + BorderRightWidth(b, p),
     row |-> NoRow]

\* print_row: the line written for one row (cells are left-aligned, the
\* alignment Column::new sets).
RowLine(cols, b, p, row) ==
    [kind |-> "row",
     w |-> BorderLeftWidth(b, p)
           + SumSeq([i \in 1..Len(cols) |->
                 (IF i > 1 THEN DividerWidth(p) ELSE 0)
                 + WrittenWidth("Left", cols[i].width, row[i])])
           + BorderRightWidth(b, p),
     row |-> row]

HasHeaders(cols) == \E i \in 1..Len(cols) : IsSome(cols[i].header)

\* print_headers: the outcomes [output, panic] it can end in. The rule comes
\* first; then "self.width - border_width * 2" is computed, with or without
\* a title. When that underflows, a build with overflow checks panics; one
\* without goes on with a wrapped title_width, which is unused without a
\* title and with a title asks for padding that never completes.
PrintHeaders(out, cols, w, b, p, t) ==
    LET out1 == Append(out, HrLine(w))
        underflow == w < BorderWidth(b, p) * 2
        title_width == Wrap(w - BorderWidth(b, p) * 2)
        titled == IF IsSome(t)
                  THEN out1 \o << BannerLine("title", title_width, Unwrap(t), b, p),
                                  HrLine(w) >>
                  ELSE out1
        headed == IF HasHeaders(cols)
                  THEN titled \o << HeaderLine(cols, b, p), HrLine(w) >>
                  ELSE titled
    IN IF ~underflow
       THEN { [output |-> headed, panic |-> "none"] }
       ELSE { [output |-> out1, panic |-> "sub_overflow"] }
            \cup (IF IsSome(t)
                  THEN { [output |-> out1, panic |-> "huge_pad"] }
                  ELSE { [output |-> headed, panic |-> "none"] })

\* write_buffer: the outcomes it can end in when nothing fails; measured is
\* the number of rows calc_sizes went through.
WriteBuffer(cols, buf, out, mw, b, p, t, g, w, done) ==
    LET calc == IF done THEN [panic |-> "none", columns |-> cols, width |-> w]
                ELSE CalcSizes(cols, buf, mw, b, p, g, w)
        measured == IF done THEN 0 ELSE Len(buf)
    IN IF calc.panic # "none"
       THEN { [columns |-> calc.columns, width |-> calc.width, output |-> out,
               buffer |-> buf, measured |-> measured, panic |-> calc.panic] }
       ELSE { [columns |-> calc.columns, width |-> calc.width,
               measured |-> measured,
               output |-> IF h.panic = "none"
                          THEN h.output
                               \o [k \in 1..Len(buf) |->
                                      RowLine(calc.columns, b, p, buf[k])]
                          ELSE h.output,
               buffer |-> IF h.panic = "none" THEN << >> ELSE buf,
               panic |-> h.panic]
            : h \in PrintHeaders(out, calc.columns, calc.width, b, p, t) }

----------------------------------------------------------------------------
(* Calls that return Err (lib.rs 186, 193-200, 283, 312, 451-453,          *)
(* 462-472): an extractor or a write to the output fails and "?" returns   *)
(* the error at once. A line that fails is cut at a write boundary: the    *)
(* lines completed before it stay, and of a row line the part written      *)
(* before the failing cell (a line of kind "partial").                     *)

\* calc_sizes stopped by the extractor at row k, column i: the rows before k
\* are measured in every column, row k in the columns before i.
MeasureUpTo(cols, buf, k, i) ==
    [j \in 1..Len(cols) |->
        MeasureColumn(cols[j], j, SubSeq(buf, 1, IF j < i THEN k ELSE k - 1))]

\* print_row stopped at column i: the opening border, the cells before i
\* and their dividers are written, and the divider before cell i.
CutRow(cols, b, p, row, i) ==
    LET w == BorderLeftWidth(b, p)
             + SumSeq([j \in 1..(i - 1) |->
                   (IF j > 1 THEN DividerWidth(p) ELSE 0)
                   + WrittenWidth("Left", cols[j].width, row[j])])
             + (IF i > 1 THEN DividerWidth(p) ELSE 0)
    IN IF w = 0 THEN << >>
       ELSE << [kind |-> "partial", w |-> w, row |-> NoRow] >>

\* The rows of a buffer at which a failure is injected: the first MaxRows
\* rows and the last one.
FaultRows(rows) == { k \in 1..Len(rows) : k <= MaxRows \/ k = Len(rows) }

\* The loop of write_buffer over the buffered rows, stopped in row k.
PrintRowsErr(cols, b, p, rows, out) ==
    { out \o [m \in 1..(k - 1) |-> RowLine(cols, b, p, rows[m])]
          \o CutRow(cols, b, p, rows[k], i)
      : k \in FaultRows(rows), i \in 1..Len(cols) }

\* A print_headers that drops the error of a line and writes the next ones.
PrintHeadersSkipsFailure(out, cols, w, b, p, t) ==
    UNION { { SubSeq(h.output, 1, n) \o SubSeq(h.output, n + 2, Len(h.output))
              : n \in Len(out)..(Len(h.output) - 1) }
            : h \in { x \in PrintHeaders(out, cols, w, b, p, t) :
                          x.panic = "none" } }

\* print_headers returning Err: the outputs it can leave. The first rule
\* can always fail; a later line only when the subtraction after the first
\* rule did not panic.
PrintHeadersErr(out, cols, w, b, p, t) ==
    { out }
    \cup UNION { { SubSeq(h.output, 1, n) : n \in Len(out)..(Len(h.output) - 1) }
                : h \in { x \in PrintHeaders(out, cols, w, b, p, t) :
                              x.panic = "none" } }

\* write_buffer returning Err: from calc_sizes (an extractor fails, the
\* widths stay unassigned), from print_headers (the buffer is kept), or
\* from print_row (the buffer was already taken out of the Stream, the rows
\* not yet written are dropped).
WriteBufferErr(cols, buf, out, mw, b, p, t, g, w, done) ==
    LET calc == IF done THEN [panic |-> "none", columns |-> cols, width |-> w]
                ELSE CalcSizes(cols, buf, mw, b, p, g, w)
        measured == IF done THEN 0 ELSE Len(buf)
        inCalc ==
            IF done THEN { }
            ELSE { [columns |-> MeasureUpTo(cols, buf, k, i), width |-> w,
                    output |-> out, buffer |-> buf, measured |-> k - 1,
                    site |-> "calc_sizes"]
                   : k \in FaultRows(buf), i \in 1..Len(cols) }
        inHeaders ==
            { [columns |-> calc.columns, width |-> calc.width, output |-> o,
               buffer |-> buf, measured |-> measured, site |-> "print_headers"]
              : o \in PrintHeadersErr(out, calc.columns, calc.width, b, p, t) }
        inRows ==
            UNION { { [columns |-> calc.columns, width |-> calc.width,
                       output |-> o, buffer |-> << >>, measured |-> measured,
                       site |-> "print_row"]
                      : o \in PrintRowsErr(calc.columns, b, p, buf, h.output) }
                    : h \in { x \in PrintHeaders(out, calc.columns, calc.width,
                                                  b, p, t) : x.panic = "none" } }
    IN IF calc.panic # "none" THEN inCalc
       ELSE inCalc \cup inHeaders \cup inRows

----------------------------------------------------------------------------
(* The inputs a caller supplies.                                           *)

\* Cell texts an extractor renders: empty, or a wide glyph followed by a
\* narrow one.
Texts == { << >>, <<2, 1>> }
TitleTexts == { <<1, 1, 1, 1, 1>> }
FooterTexts == { <<1, 1, 1>> }
\* Widths passed to Stream::max_width.
WidthArgs == { 0, 11 }
\* What crossterm::terminal::size() reports, or the fallback.
TermWidths == { 8, DefaultTermWidth }

\* Rows appended so far.
Fed == Len(appended)

\* A one-column table may be streamed past the buffer limit; wider tables
\* are given at most MaxRows rows.
RowBudget == IF Len(columns) = 1 THEN StreamRows ELSE MaxRows

\* The first MaxRows rows are arbitrary, later ones repeat one narrow glyph.
RowInputs ==
    IF Fed < MaxRows THEN [1..Len(columns) -> Texts]
    ELSE { [i \in 1..Len(columns) |-> <<1>>] }

----------------------------------------------------------------------------
(* The Stream (lib.rs 93-476).                                             *)

\* Stream::new: the struct literal, then max_width(terminal width). With no
\* columns "num_cols - 1" underflows at once.
StreamNew(cols) ==
    /\ columns = cols
    /\ grow = None
    /\ borders = FALSE
    /\ padding = TRUE
    /\ title = None
    /\ sizes_calculated = FALSE
    /\ width = 0
    /\ buffer = << >>
    /\ output = << >>
    /\ calls = 0
    /\ errors = << >>
    /\ sample = 0
    /\ appended = << >>
    /\ \E term \in TermWidths :
         \/ /\ max_width = MaxWidthValue(cols, FALSE, TRUE, None, term)
            /\ status = "open"
            /\ panic = "none"
         \/ /\ Len(cols) = 0
            /\ max_width = 0
            /\ status = "panicked"
            /\ panic = "sub_overflow"

Init == cell = NoCell /\ \E cols \in ColumnVectors : StreamNew(cols)

Configurable == status = "open" /\ calls < MaxSetterCalls

\* Stream::borders
Borders(b) ==
    /\ Configurable
    /\ borders' = b
    /\ max_width' = MaxWidthValue(columns, b, padding, title, max_width)
    /\ calls' = calls + 1
    /\ UNCHANGED <<columns, grow, padding, title, sizes_calculated, width,
                   buffer, output, status, panic,
                   errors, sample, appended, cell>>

\* Stream::max_width
MaxWidth(requested) ==
    /\ Configurable
    /\ max_width' = MaxWidthValue(columns, borders, padding, title, requested)
    /\ calls' = calls + 1
    /\ UNCHANGED <<columns, grow, borders, padding, title, sizes_calculated,
                   width, buffer, output, status, panic,
                   errors, sample, appended, cell>>

\* Stream::padding
Padding(p) ==
    /\ Configurable
    /\ padding' = p
    /\ max_width' = MaxWidthValue(columns, borders, p, title, max_width)
    /\ calls' = calls + 1
    /\ UNCHANGED <<columns, grow, borders, title, sizes_calculated, width,
                   buffer, output, status, panic,
                   errors, sample, appended, cell>>

\* Stream::grow
Grow(g) ==
    /\ Configurable
    /\ grow' = Some(g)
    /\ calls' = calls + 1
    /\ UNCHANGED <<columns, max_width, borders, padding, title,
                   sizes_calculated, width, buffer, output, status, panic,
                   errors, sample, appended, cell>>

\* Stream::title
Title(t) ==
    /\ Configurable
    /\ title' = Some(t)
    /\ max_width' = MaxWidthValue(columns, borders, padding, Some(t), max_width)
    /\ calls' = calls + 1
    /\ UNCHANGED <<columns, grow, borders, padding, sizes_calculated, width,
                   buffer, output, status, panic,
                   errors, sample, appended, cell>>

\* The state a write_buffer outcome r leaves, before what follows it.
Flushed(r) ==
    /\ columns' = r.columns
    /\ width' = r.width
    /\ buffer' = r.buffer
    /\ sample' = sample + r.measured
    /\ sizes_calculated' = TRUE

\* A row() that commits as soon as the buffer holds the limit.
BufferFullAtLimit(buf) == Len(buf) >= BufferLimit

\* self.buffer.len() > 100 of row()
BufferFull(buf) == Len(buf) > BufferLimit

\* self.grow.or(Some(true)) of row()
GrowOrTrue(g) == IF IsSome(g) THEN g ELSE Some(TRUE)

\* Stream::row
Row(data) ==
    /\ status = "open"
    /\ Fed < RowBudget
    /\ IF sizes_calculated
       THEN /\ output' = Append(output, RowLine(columns, borders, padding, data))
            /\ UNCHANGED <<columns, grow, width, buffer, sizes_calculated,
                           sample, status, panic>>
       ELSE IF BufferFull(Append(buffer, data))
            THEN LET g == GrowOrTrue(grow)
                 IN /\ grow' = g
                    /\ \E r \in WriteBuffer(columns, Append(buffer, data),
                                   output, max_width, borders, padding, title,
                                   g, width, sizes_calculated) :
                         /\ Flushed(r)
                         /\ output' = r.output
                         /\ panic' = r.panic
                         /\ status' = IF r.panic = "none" THEN "open"
                                      ELSE "panicked"
            ELSE /\ buffer' = Append(buffer, data)
                 /\ UNCHANGED <<columns, grow, width, output,
                                sizes_calculated, sample, status, panic>>
    /\ appended' = Append(appended, data)
    /\ UNCHANGED <<max_width, borders, padding, title, calls, errors, cell>>

\* Stream::finish
Finish ==
    /\ status = "open"
    /\ IF buffer # << >>
       THEN \E r \in WriteBuffer(columns, buffer, output, max_width, borders,
                         padding, title, grow, width, sizes_calculated) :
              /\ Flushed(r)
              /\ panic' = r.panic
              /\ IF r.panic = "none"
                 THEN /\ output' = Append(r.output, HrLine(r.width))
                      /\ status' = "finished"
                 ELSE /\ output' = r.output
                      /\ status' = "panicked"
       ELSE /\ output' = Append(output, HrLine(width))
            /\ status' = "finished"
            /\ UNCHANGED <<columns, width, buffer, sizes_calculated, sample,
                           panic>>
    /\ UNCHANGED <<max_width, grow, borders, padding, title, calls, errors,
                   appended, cell>>

\* footer, after its write_buffer: "self.width - border_width * 2" panics on
\* underflow in a build with overflow checks; without them the rule is
\* written and the footer cell asks for padding that never completes.
FooterTail(out, w, text) ==
    LET underflow == w < BorderWidth(borders, padding) * 2
        foot_width == Wrap(w - BorderWidth(borders, padding) * 2)
    IN IF ~underflow
       THEN { [output |-> out \o << HrLine(w),
                   BannerLine("footer", foot_width, text, borders, padding),
                   HrLine(w) >>,
               panic |-> "none"] }
       ELSE { [output |-> out, panic |-> "sub_overflow"],
              [output |-> Append(out, HrLine(w)), panic |-> "huge_pad"] }

\* Stream::footer
Footer(text) ==
    /\ status = "open"
    /\ IF buffer # << >>
       THEN \E r \in WriteBuffer(columns, buffer, output, max_width, borders,
                         padding, title, grow, width, sizes_calculated) :
              /\ Flushed(r)
              /\ IF r.panic = "none"
                 THEN \E f \in FooterTail(r.output, r.width, text) :
                        /\ output' = f.output
                        /\ panic' = f.panic
                        /\ status' = IF f.panic = "none" THEN "finished"
                                     ELSE "panicked"
                 ELSE /\ output' = r.output
                      /\ panic' = r.panic
                      /\ status' = "panicked"
       ELSE /\ \E f \in FooterTail(output, width, text) :
                 /\ output' = f.output
                 /\ panic' = f.panic
                 /\ status' = IF f.panic = "none" THEN "finished"
                              ELSE "panicked"
            /\ UNCHANGED <<columns, width, buffer, sizes_calculated, sample>>
    /\ UNCHANGED <<max_width, grow, borders, padding, title, calls, errors,
                   appended, cell>>

\* Stream::row returning Err: print_row fails once the sizes are flagged as
\* calculated; before that only the call that commits can fail.
RowErr(data) ==
    /\ status = "open"
    /\ Fed < RowBudget
    /\ Len(errors) < MaxIoErrors
    /\ IF sizes_calculated
       THEN /\ \E i \in 1..Len(columns) :
                 output' = output \o CutRow(columns, borders, padding, data, i)
            /\ errors' = Append(errors, "print_row")
            /\ UNCHANGED <<columns, grow, width, buffer, sizes_calculated,
                           sample>>
       ELSE /\ BufferFull(Append(buffer, data))
            /\ grow' = GrowOrTrue(grow)
            /\ \E r \in WriteBufferErr(columns, Append(buffer, data), output,
                              max_width, borders, padding, title,
                              GrowOrTrue(grow), width, sizes_calculated) :
                 /\ Flushed(r)
                 /\ output' = r.output
                 /\ errors' = Append(errors, r.site)
    /\ appended' = Append(appended, data)
    /\ UNCHANGED <<max_width, borders, padding, title, calls, status, panic,
                   cell>>

\* Stream::finish returning Err: from write_buffer, or from the closing rule.
FinishErr ==
    /\ status = "open"
    /\ Len(errors) < MaxIoErrors
    /\ IF buffer # << >>
       THEN \/ \E r \in WriteBufferErr(columns, buffer, output, max_width,
                              borders, padding, title, grow, width,
                              sizes_calculated) :
                 /\ Flushed(r)
                 /\ output' = r.output
                 /\ errors' = Append(errors, r.site)
            \/ \E r \in WriteBuffer(columns, buffer, output, max_width,
                              borders, padding, title, grow, width,
                              sizes_calculated) :
                 /\ r.panic = "none"
                 /\ Flushed(r)
                 /\ output' = r.output
                 /\ errors' = Append(errors, "hr")
       ELSE /\ output' = output
            /\ errors' = Append(errors, "hr")
            /\ UNCHANGED <<columns, width, buffer, sizes_calculated, sample>>
    /\ status' = "failed"
    /\ UNCHANGED <<max_width, grow, borders, padding, title, calls, panic,
                   appended, cell>>

\* footer, after its write_buffer, returning Err: the outputs it can leave.
\* The subtraction comes before the first write, so a build with overflow
\* checks never gets to fail; without them the first rule can.
FooterTailErr(out, w, text) ==
    LET underflow == w < BorderWidth(borders, padding) * 2
        foot_width == Wrap(w - BorderWidth(borders, padding) * 2)
    IN IF underflow THEN { out }
       ELSE { out, Append(out, HrLine(w)),
              out \o << HrLine(w),
                  BannerLine("footer", foot_width, text, borders, padding) >> }

\* Stream::footer returning Err.
FooterErr(text) ==
    /\ status = "open"
    /\ Len(errors) < MaxIoErrors
    /\ IF buffer # << >>
       THEN \/ \E r \in WriteBufferErr(columns, buffer, output, max_width,
                              borders, padding, title, grow, width,
                              sizes_calculated) :
                 /\ Flushed(r)
                 /\ output' = r.output
                 /\ errors' = Append(errors, r.site)
            \/ \E r \in WriteBuffer(columns, buffer, output, max_width,
                              borders, padding, title, grow, width,
                              sizes_calculated) :
                 /\ r.panic = "none"
                 /\ Flushed(r)
                 /\ \E o \in FooterTailErr(r.output, r.width, text) :
                        output' = o
                 /\ errors' = Append(errors, "footer")
       ELSE /\ \E o \in FooterTailErr(output, width, text) : output' = o
            /\ errors' = Append(errors, "footer")
            /\ UNCHANGED <<columns, width, buffer, sizes_calculated, sample>>
    /\ status' = "failed"
    /\ UNCHANGED <<max_width, grow, borders, padding, title, calls, panic,
                   appended, cell>>

Next ==
    \/ \E b \in BOOLEAN : Borders(b)
    \/ \E n \in WidthArgs : MaxWidth(n)
    \/ \E p \in BOOLEAN : Padding(p)
    \/ \E g \in BOOLEAN : Grow(g)
    \/ \E t \in TitleTexts : Title(t)
    \/ \E data \in RowInputs : Row(data)
    \/ Finish
    \/ \E text \in FooterTexts : Footer(text)

Spec == Init /\ [][Next]_vars

\* Sessions of a one-column table: the ones streamed past the buffer limit.
StreamInit ==
    /\ cell = NoCell
    /\ \E cols \in { v \in ColumnVectors : Len(v) = 1 } : StreamNew(cols)

StreamSpec == StreamInit /\ [][Next]_vars

\* Sessions in which calls may return Err: a table of one to MaxFaultCols
\* columns built as Stream::new(out, cols) on the narrow terminal,
\* optionally .borders(true) and .title(t), and configured no further; up
\* to MaxIoErrors calls fail.
FaultTermWidths == { w \in TermWidths : w < DefaultTermWidth }

FaultInit ==
    /\ cell = NoCell
    /\ \E cols \in { v \in ColumnVectors : Len(v) \in 1..MaxFaultCols },
          term \in FaultTermWidths, b \in BOOLEAN,
          t \in { None } \cup { Some(x) : x \in TitleTexts } :
          LET new == MaxWidthValue(cols, FALSE, TRUE, None, term)
              bordered == IF b THEN MaxWidthValue(cols, b, TRUE, None, new)
                          ELSE new
              titled == IF IsSome(t)
                        THEN MaxWidthValue(cols, b, TRUE, t, bordered)
                        ELSE bordered
          IN /\ columns = cols
             /\ max_width = titled
             /\ grow = None
             /\ borders = b
             /\ padding = TRUE
             /\ title = t
             /\ sizes_calculated = FALSE
             /\ width = 0
             /\ buffer = << >>
             /\ output = << >>
             /\ status = "open"
             /\ panic = "none"
             /\ calls = (IF b THEN 1 ELSE 0) + (IF IsSome(t) THEN 1 ELSE 0)
             /\ errors = << >>
             /\ sample = 0
             /\ appended = << >>

FaultNext ==
    \/ \E data \in RowInputs : Row(data)
    \/ Finish
    \/ \E text \in FooterTexts : Footer(text)
    \/ \E data \in RowInputs : RowErr(data)
    \/ FinishErr
    \/ \E text \in FooterTexts : FooterErr(text)

FaultSpec == FaultInit /\ [][FaultNext]_vars

\* Alignment::write on its own: any alignment, any width up to
\* MaxCellWidth, any text of up to MaxCellLen glyphs.
CellTexts == UNION { [1..n -> {1, 2}] : n \in 0..MaxCellLen }
Alignments == { "Left", "Center", "Right" }

FormatInit ==
    /\ StreamNew(<< ColumnNew >>)
    /\ max_width = DefaultTermWidth
    /\ cell \in [alignment : Alignments, col_width : 0..MaxCellWidth,
                 value : CellTexts, written : { None }]

\* One call of Alignment::write.
Write ==
    /\ cell.written = None
    /\ cell' = [cell EXCEPT !.written =
                    Some(AlignmentWrite(cell.alignment, cell.col_width,
                                        cell.value))]
    /\ UNCHANGED <<columns, max_width, grow, borders, padding, title,
                   sizes_calculated, width, buffer, output, status, panic,
                   calls, errors, sample, appended>>

FormatNext == Write

FormatSpec == FormatInit /\ [][FormatNext]_vars

----------------------------------------------------------------------------
(* Properties.                                                             *)

CalcPanics == { "infeasible", "div_zero" }

\* calc_sizes returned Err in one of the calls so far.
CalcFailed(errs) == \E k \in 1..Len(errs) : errs[k] = "calc_sizes"

\* calc_sizes has run to its end in this state.
SizesComputed ==
    sizes_calculated /\ panic \notin CalcPanics /\ ~CalcFailed(errors)

\* This step is the one in which calc_sizes runs to its end.
SizesJustComputed ==
    /\ ~sizes_calculated /\ sizes_calculated'
    /\ panic' \notin CalcPanics /\ ~CalcFailed(errors')

SumWidths(cols) == SumSeq([i \in 1..Len(cols) |-> cols[i].width])

\* The layout overhead the claims name: dividers plus borders.
Overhead(cols, b, p) ==
    (Len(cols) - 1) * (1 + 2 * PadOf(p)) + (IF b THEN 2 * (1 + PadOf(p)) ELSE 0)

\* The sizing took the overflow path: natural widths did not fit.
Overflowed(cols, mw, b, p) ==
    SumSeq([i \in 1..Len(cols) |-> ColWidth(cols[i])])
        >= AvailableWidth(cols, mw, b, p)

\* C1: width conservation. In the step that computes the sizes, the sum of
\* the columns' resolved widths plus divider overhead plus border overhead
\* equals the stored table width, and the table width is at most max_width.
C1_WidthConservation ==
    [][SizesJustComputed =>
          /\ SumWidths(columns') + Overhead(columns', borders', padding') = width'
          /\ width' <= max_width']_vars

\* C1 witnesses: sizes computed on the overflow path with three columns, and
\* on the natural-fit path with grow on.
C1_Witness ==
    /\ SizesComputed /\ calls = 0 /\ Len(columns) = 3
    /\ Overflowed(columns, max_width, borders, padding)
    /\ SumWidths(columns) + Overhead(columns, borders, padding) = width
    /\ \E i \in 1..3 : columns[i].width > columns[i].min_width

\* C2: min-width floor. Once sizes are computed, every column's resolved
\* width is at least its min_width.
C2_MinWidthFloor ==
    SizesComputed => \A i \in 1..Len(columns) : columns[i].width >= columns[i].min_width

\* C3: header floor. Once sizes are computed, every column with a header is
\* at least as wide as the header's display width.
C3_HeaderFloor ==
    SizesComputed =>
        \A i \in 1..Len(columns) :
            IsSome(columns[i].header) =>
                columns[i].width >= TextWidth(Unwrap(columns[i].header))

\* C4: sizes are computed exactly once per session. The flag is never reset,
\* so the computation runs at most once; by the time finish() or footer()
\* has returned (on a table that has columns) it has run.
C4_ComputedOnce == (status = "finished" /\ Len(columns) >= 1) => SizesComputed

\* C5: the "Couldn't display" panic of calc_sizes is never reached.
C5_NoInfeasiblePanic == panic # "infeasible"

\* A row line has been written.
RowFlushed == \E k \in 1..Len(output) : output[k].kind = "row"

\* C6: once the first row has been flushed, no step changes borders,
\* padding, title, grow or max_width.
C6_ConfigFixed ==
    [][RowFlushed => UNCHANGED <<borders, padding, title, grow, max_width>>]_vars

\* The step is a call of row().
RowStep == \E data \in RowInputs : Row(data)

\* C7: the default of grow. When row() forces the sizing and grow is unset,
\* the sizing runs with grow = true; when finish()/footer() forces it and
\* grow is unset, it runs with grow = false; a value set with grow() is used
\* unchanged. With data that fits, growing makes the table max_width wide and
\* not growing makes it the sum of the natural widths plus overhead.
C7_GrowDefault ==
    [][SizesJustComputed =>
          LET growing == IF IsSome(grow) THEN Unwrap(grow) ELSE RowStep
          IN /\ IsSome(grow) => grow' = grow
             /\ ~Overflowed(columns', max_width, borders, padding) =>
                    width' = IF growing THEN max_width
                             ELSE SumSeq([i \in 1..Len(columns) |-> ColWidth(columns'[i])])
                                  + Overhead(columns, borders, padding)]_vars

\* C7 witness: a row() forced the sizing with grow unset, the data fit and
\* the table is max_width wide, wider than its natural width.
C7_Witness ==
    /\ SizesComputed /\ status = "open" /\ calls = 0
    /\ grow = Some(TRUE)
    /\ ~Overflowed(columns, max_width, borders, padding)
    /\ width = max_width

\* Natural width as the specification defines it: the largest of the widest
\* observed cell, the header's display width and min_width.
Natural(c) ==
    Max(Max(c.max_width, IF IsSome(c.header) THEN TextWidth(Unwrap(c.header)) ELSE 0),
        c.min_width)

NaturalSum(cols) == SumSeq([i \in 1..Len(cols) |-> Natural(cols[i])])

\* C8: natural-fit path. When the natural widths sum to less than the
\* available width, every column gets its natural width plus, if grow is
\* true, slack / num_columns, the last column also slack mod num_columns;
\* without grow the table is as wide as the natural widths plus overhead.
C8_NaturalFit ==
    [][(SizesJustComputed
        /\ NaturalSum(columns') < AvailableWidth(columns, max_width, borders, padding)) =>
          LET n == Len(columns)
              growing == grow' = Some(TRUE)
              slack == AvailableWidth(columns, max_width, borders, padding)
                       - NaturalSum(columns')
          IN /\ \A i \in 1..n :
                    columns'[i].width =
                        Natural(columns'[i])
                        + (IF growing THEN slack \div n ELSE 0)
                        + (IF growing /\ i = n THEN slack % n ELSE 0)
             /\ ~growing =>
                    width' = NaturalSum(columns') + Overhead(columns, borders, padding)]_vars

\* For C9: num_big is feasible when the natural widths of the other columns
\* plus the min_widths of the num_big biggest fit the available width.
Feasible(cols, available, num_big) ==
    LET order == SortByWidthSum(cols)
        n == Len(cols)
    IN SumSeq([k \in 1..(n - num_big) |-> Natural(cols[order[k]])])
       + SumSeq([k \in 1..num_big |-> cols[order[n - num_big + k]].min_width])
       <= available

\* C9: overflow path. When the natural widths do not fit, the accepted
\* num_big is the smallest feasible one; each small column gets its natural
\* width and the big columns together get the rest of the available width.
C9_OverflowPartition ==
    [][(SizesJustComputed
        /\ NaturalSum(columns') >= AvailableWidth(columns, max_width, borders, padding)) =>
          LET n == Len(columns)
              available == AvailableWidth(columns, max_width, borders, padding)
              order == SortByWidthSum(columns')
          IN \E num_big \in 1..n :
                /\ Feasible(columns', available, num_big)
                /\ \A m \in 1..(num_big - 1) : ~Feasible(columns', available, m)
                /\ \A k \in 1..(n - num_big) :
                      columns'[order[k]].width = Natural(columns'[order[k]])
                /\ SumSeq([k \in 1..num_big |-> columns'[order[n - num_big + k]].width])
                   = available
                     - SumSeq([k \in 1..(n - num_big) |-> columns'[order[k]].width])]_vars

\* The kinds of the lines written, in order.
Kinds(out) == [k \in 1..Len(out) |-> out[k].kind]

Repeat(x, n) == [k \in 1..n |-> x]

\* What C10 says the output holds before the closing block.
ExpectedHead ==
    <<"hr">>
    \o (IF IsSome(title) THEN <<"title", "hr">> ELSE << >>)
    \o (IF HasHeaders(columns) THEN <<"header", "hr">> ELSE << >>)
    \o Repeat("row", Fed)

\* C10: emission order. A session (of a table that has columns) with at
\* least one row that has been completed has written: top rule, title block
\* if a title is set, header block iff a column has a header, one line per
\* row, then the bottom rule (finish) or rule, footer line, rule (footer).
C10_EmissionOrder ==
    (status # "open" /\ Fed >= 1 /\ Len(columns) >= 1) =>
        /\ status = "finished"
        /\ Kinds(output) \in { ExpectedHead \o <<"hr">>,
                               ExpectedHead \o <<"hr", "footer", "hr">> }

IsPrefix(a, b) == Len(a) <= Len(b) /\ SubSeq(b, 1, Len(a)) = a

\* The rows shown by the row lines of an output, in order.
WrittenRows(out) ==
    LET lines == SelectSeq(out, LAMBDA l : l.kind = "row")
    IN [k \in 1..Len(lines) |-> lines[k].row]

\* C11: row delivery and order. While no call has returned Err (on a table
\* that has columns): the rows written followed by the rows pending are the
\* rows appended, in append order; once the sizes are flagged as calculated
\* the pending buffer stays empty, so every later row is written by its own
\* row() call; and once finish() or footer() has been called the row lines
\* of the output are exactly the appended rows, each once, in order.
C11_RowDelivery ==
    (errors = << >> /\ Len(columns) >= 1) =>
        /\ status = "open" =>
              /\ WrittenRows(output) \o buffer = appended
              /\ sizes_calculated => buffer = << >>
        /\ status # "open" => WrittenRows(output) = appended

\* What a row() call before the commit does, with a sample of n rows.
ThresholdRule(n) ==
    (RowStep /\ ~sizes_calculated) =>
        /\ Len(buffer) + 1 <= 100 =>
              /\ output' = output
              /\ ~sizes_calculated'
              /\ buffer' = Append(buffer, appended'[Len(appended')])
        /\ Len(buffer) + 1 > 100 =>
              /\ sizes_calculated'
              /\ sample' = n

\* C12 as claimed: row() only buffers while the buffer holds at most 100
\* rows; the call that makes it exceed 100 forces the commit, and calc_sizes
\* measures a sample of 100 rows.
C12_SampleOf100 == [][ThresholdRule(100)]_vars

\* C12 as amended: the same, with a sample of 101 rows: the 100 rows held
\* before and the row of the call that forces the commit.
C12_SampleOf101 == [][ThresholdRule(101)]_vars

\* C12 witness: the 101st row() has forced the commit, calc_sizes has
\* measured 101 rows and all of them are written.
C12_Witness ==
    /\ SizesComputed /\ status = "open" /\ calls = 0
    /\ Len(appended) = 101 /\ sample = 101
    /\ buffer = << >> /\ Len(WrittenRows(output)) = 101

\* A call has returned Err in this step.
ErrStep == errors' # errors

\* got is full cut short: some of its first lines, and possibly the
\* beginning of the row line that follows them.
CutOf(got, full) ==
    \E n \in 0..(Len(full) - 1) :
        \/ got = SubSeq(full, 1, n)
        \/ /\ Len(got) = n + 1
           /\ SubSeq(got, 1, n) = SubSeq(full, 1, n)
           /\ got[n + 1].kind = "partial"
           /\ full[n + 1].kind = "row"
           /\ got[n + 1].w <= full[n + 1].w

\* What the output holds after row(data), when nothing fails.
RowOutputs(data) ==
    IF sizes_calculated
    THEN { Append(output, RowLine(columns, borders, padding, data)) }
    ELSE { r.output : r \in WriteBuffer(columns, Append(buffer, data), output,
                                max_width, borders, padding, title,
                                GrowOrTrue(grow), width, sizes_calculated) }

\* What the output holds after finish() or footer(), when nothing fails.
CompletionOutputs ==
    LET flushed ==
            IF buffer # << >>
            THEN { [output |-> r.output, width |-> r.width, panic |-> r.panic]
                   : r \in WriteBuffer(columns, buffer, output, max_width,
                                borders, padding, title, grow, width,
                                sizes_calculated) }
            ELSE { [output |-> output, width |-> width, panic |-> "none"] }
    IN UNION { IF f.panic # "none" THEN { f.output }
               ELSE { Append(f.output, HrLine(f.width)) }
                    \cup { ft.output
                           : ft \in UNION { FooterTail(f.output, f.width, text)
                                            : text \in FooterTexts } }
               : f \in flushed }

\* C13: a failure aborts the call. In a step in which row(), finish() or
\* footer() returns Err, what was written before the call stays written, and
\* what the call wrote is what it writes when nothing fails, cut short at
\* the failure: no line after the failed one, no line twice. row() leaves
\* the session open, finish() and footer() end it; nothing panics.
C13_FailureAborts ==
    [][ErrStep =>
          /\ IsPrefix(output, output')
          /\ panic' = panic
          /\ status' \in { "open", "failed" }
          /\ status' = "open" =>
                \E full \in RowOutputs(appended'[Len(appended')]) :
                    CutOf(output', full)
          /\ status' = "failed" =>
                \E full \in CompletionOutputs : CutOf(output', full)]_vars

\* C13 witness: finish() or footer() failed inside a row of a table with a
\* header: the header block and a row are written, then a partial line.
C13_Witness ==
    /\ status = "failed" /\ errors = << "print_row" >>
    /\ Len(output) >= 4
    /\ output[Len(output)].kind = "partial"
    /\ output[Len(output) - 1].kind = "row"
    /\ \E k \in 1..Len(output) : output[k].kind = "header"

\* C14: the cell formatter. Alignment::write emits lpad spaces, the longest
\* whole-glyph prefix of the text whose display width is at most the target
\* width, and rpad spaces, of total display width exactly the target width;
\* with slack = width - prefix width, (lpad, rpad) is (0, slack) for Left,
\* (slack, 0) for Right and (slack / 2, slack / 2 + slack mod 2) for Center.
C14_CellFormatter ==
    IsSome(cell.written) =>
        LET r == Unwrap(cell.written)
            w == cell.col_width
            slack == w - TextWidth(r.text)
        IN /\ IsPrefix(r.text, cell.value)
           /\ TextWidth(r.text) <= w
           /\ Len(r.text) < Len(cell.value) =>
                  TextWidth(SubSeq(cell.value, 1, Len(r.text) + 1)) > w
           /\ r.lpad + TextWidth(r.text) + r.rpad = w
           /\ cell.alignment = "Left" => r.lpad = 0 /\ r.rpad = slack
           /\ cell.alignment = "Right" => r.lpad = slack /\ r.rpad = 0
           /\ cell.alignment = "Center" =>
                  /\ r.lpad = slack \div 2
                  /\ r.rpad = (slack \div 2) + (slack % 2)

\* C14 witness: a centered text cut before a wide glyph that does not fit,
\* with odd slack.
C14_Witness ==
    /\ IsSome(cell.written)
    /\ cell.alignment = "Center"
    /\ Len(Unwrap(cell.written).text) < Len(cell.value)
    /\ Len(Unwrap(cell.written).text) >= 1
    /\ Unwrap(cell.written).rpad = Unwrap(cell.written).lpad + 1

\* The num_big the overflow path accepts: the first that penalize_big_cols
\* returns true for.
AcceptedBig(cols, mw, b, p) ==
    CHOOSE k \in 1..Len(cols) :
        /\ PenalizeBigCols(cols, mw, b, p, k).ok
        /\ \A m \in 1..(k - 1) : ~PenalizeBigCols(cols, mw, b, p, m).ok

\* The pinning rule of C15, over the big columns in ascending width_sum
\* order: a column whose share (pool / big columns left) is below its
\* min_width is pinned and its min_width deducted from the pool.
RECURSIVE Pins(_, _, _, _, _, _)
Pins(cols, big, j, pool, left, pinned) ==
    IF j > Len(big) THEN [pinned |-> pinned, pool |-> pool, left |-> left]
    ELSE IF pool \div left < cols[big[j]].min_width
         THEN Pins(cols, big, j + 1, pool - cols[big[j]].min_width, left - 1,
                   pinned \cup { big[j] })
         ELSE Pins(cols, big, j + 1, pool, left, pinned)

\* C15: pool distribution on the overflow path. In the step that computes
\* the sizes on the overflow path: a pinned big column has exactly its
\* min_width; every big column that is not pinned has leftover pool /
\* number of unpinned big columns, and the one of them with the biggest
\* width_sum has the remainder of that division on top.
C15_PoolDistribution ==
    [][(SizesJustComputed /\ Overflowed(columns', max_width, borders, padding)) =>
          LET cols == columns'
              n == Len(cols)
              k == AcceptedBig(cols, max_width, borders, padding)
              order == SortByWidthSum(cols)
              small == SubSeq(order, 1, n - k)
              big == SubSeq(order, n - k + 1, n)
              pool == AvailableWidth(cols, max_width, borders, padding)
                      - SumSeq([j \in 1..Len(small) |-> SmallWidth(cols[small[j]])])
              pins == Pins(cols, big, 1, pool, k, { })
              unpinned == { j \in 1..k : big[j] \notin pins.pinned }
              biggest == CHOOSE j \in unpinned : \A m \in unpinned : m <= j
          IN /\ \A j \in 1..k :
                    big[j] \in pins.pinned =>
                        cols[big[j]].width = cols[big[j]].min_width
             /\ unpinned # { }
             /\ \A j \in unpinned :
                    cols[big[j]].width =
                        (pins.pool \div pins.left)
                        + (IF j = biggest THEN pins.pool % pins.left ELSE 0)]_vars

\* C16: uniform line width. Once the sizes are computed, every complete
\* line in the output (rule, title, header, row, footer) is as wide as the
\* table.
C16_UniformLineWidth ==
    SizesComputed =>
        \A k \in 1..Len(output) :
            output[k].kind # "partial" => output[k].w = width

\* C17: the flag implies resolved widths. Whenever sizes_calculated is true
\* and the session is open (so the next row() writes a row line at once),
\* calc_sizes has run to its end, and no row is left in the pending buffer
\* for a later row to overtake.
C17_FlagMeansSized ==
    (sizes_calculated /\ status = "open") =>
        /\ SizesComputed
        /\ buffer = << >>

\* The step is a call of footer().
FooterStep == \E text \in FooterTexts : Footer(text)

\* C18: no underflow in the title/footer width. In a step in which
\* print_headers runs (the sizes have just been computed) or footer() gets
\* past its write_buffer, the table width is at least 2 * (borders +
\* padding), so "self.width - border_width * 2" does not underflow.
C18_NoUnderflow ==
    [][(SizesJustComputed \/ (FooterStep /\ panic' \notin CalcPanics)) =>
          width' >= 2 * BorderWidth(borders, padding)]_vars

====
